---- MODULE Spec2Model ----
(***************************************************************************)
(* Dice probability calculator: the probability engine                     *)
(* (probability-engine.service.ts) and the service that drives it          *)
(* (calculator.service.ts).                                                *)
(*                                                                         *)
(* Spec follows one call of the engine; SpecService follows the service:   *)
(* its setters, its debounce timer, its cancellation tokens and the        *)
(* calculations it has started (SpecServiceFair adds the scheduling of     *)
(* the event loop); SpecTable follows ProbabilityTableComponent: its       *)
(* results input and its sort.                                             *)
(*                                                                         *)
(* One call of ProbabilityEngine.calculateDistribution is followed from    *)
(* its start to its return, through the per-die convolution loop of        *)
(* calculateBaseDistribution, its setTimeout yields (the only points at    *)
(* which the owner of the cancellation token can run and flip the flag),   *)
(* the modifier shift, the advantage / disadvantage transform and a goal   *)
(* query on the returned array.                                            *)
(*                                                                         *)
(* Numbers.  A probability is a JavaScript double in the source.  Here it  *)
(* is the exact rational [num, den] that the double approximates; the      *)
(* operations on it are the ones the code performs (1 / diceType,          *)
(* product, sum), carried out without reduction.  A percentage             *)
(* (Math.round(p * 1000) / 10) is kept in tenths of a percent, that is as  *)
(* the integer Math.round(p * 1000): 167 stands for 16.7.                  *)
(*                                                                         *)
(* A JavaScript Map is a sequence of [key, value] entries in insertion     *)
(* order, which is the order the code iterates it in.                      *)
(***************************************************************************)
EXTENDS Integers, Sequences, FiniteSets, TLC

\* Bounds of the model: the calls that are explored have 0..MaxDice dice of
\* 0..MaxSides sides, at most MaxTuples tuples of faces (sides^diceCount),
\* and a modifier in -MaxModifier..MaxModifier; a returned array is asked the
\* goals from GoalMargin below its lowest result to GoalMargin above its
\* highest.
MaxDice == 6
MaxSides == 6
MaxModifier == 1
MaxTuples == 4096
GoalMargin == 4

VARIABLES
    pc,                \* where the call is: idle, loop, yield, done, goal
    diceCount,         \* arguments of calculateDistribution
    diceType,
    modifier,
    rollMode,
    cancelSignal,      \* cancelSignal.cancelled
    die,               \* loop variable of the convolution loop
    distribution,      \* the running Map of calculateBaseDistribution
    baseDistribution,  \* what calculateBaseDistribution returned
    results,           \* what calculateDistribution returned
    goalNumber,        \* arguments and result of calculateGoalProbability
    comparison,
    totalProbability,
    goalResult         \* the GoalResult calculateGoalResult makes of it

engineVars == <<pc, diceCount, diceType, modifier, rollMode, cancelSignal,
                die, distribution, baseDistribution, results, goalNumber,
                comparison, totalProbability, goalResult>>

\* CalculatorService (calculator.service.ts): its signals and private
\* fields, the token objects it has made, its calculations in flight and its
\* debounce timer.
VARIABLES
    diceCountSignal,           \* this.diceCount
    diceTypeSignal,            \* this.diceType: Null or Some(type)
    modifierSignal,            \* this.modifier
    goalNumberSignal,          \* this.goalNumber: Null or Some(goal)
    goalComparison,
    probabilityResults,
    isCalculating,
    goalResultSignal,          \* this.goalResult: Null or Some(GoalResult)
    currentCancellationToken,  \* the token object the field refers to
    cancelledOf,               \* token object -> its cancelled field
    calls,                     \* executeCalculation calls suspended in the
                               \* engine's setTimeout
    debounceTimer,             \* debounceTime: Null, or Some(ms until it emits)
    sinceSetter,               \* Null, or Some(ms since the last call of
                               \* setDiceCount / setDiceType / setModifier)
    started,                   \* executeCalculation calls since that call
    burst                      \* calls of these setters since the timer was
                               \* last started from rest, up to MaxBurst

serviceVars == <<diceCountSignal, diceTypeSignal, modifierSignal,
                 goalNumberSignal, goalComparison, probabilityResults,
                 isCalculating, goalResultSignal, currentCancellationToken,
                 cancelledOf, calls, debounceTimer, sinceSetter, started,
                 burst>>

\* ProbabilityTableComponent (probability-table.component.ts): the signal its
\* results input is kept in, and the sort the user has chosen.
VARIABLES
    tableResults,              \* this._results
    sortColumn,
    sortDirection

tableVars == <<tableResults, sortColumn, sortDirection>>

vars == <<engineVars, serviceVars, tableVars>>

RollModes == {"normal", "advantage", "disadvantage"}
GoalComparisons == {"exactly", "orHigher", "orLower"}

----------------------------------------------------------------------------
\* A loop of the source is a recursive operator that carries the value the
\* loop builds.  TLC hands an operator its arguments unevaluated, so each
\* iteration tests Evaluated(next), which is always TRUE, to have the value
\* computed before the next iteration starts.
Evaluated(v) == v = v

----------------------------------------------------------------------------
\* Exact rationals standing for the doubles of the source.

Rat(n, d) == [num |-> n, den |-> d]

Zero == Rat(0, 1)

\* a + b
RAdd(a, b) ==
    IF a.den = b.den
    THEN Rat(a.num + b.num, a.den)
    ELSE Rat(a.num * b.den + b.num * a.den, a.den * b.den)

\* a * b
RMul(a, b) == Rat(a.num * b.num, a.den * b.den)

\* 1 / n
OneOver(n) == Rat(1, n)

RECURSIVE Pow(_, _)
Pow(b, e) == IF e <= 0 THEN 1 ELSE b * Pow(b, e - 1)

\* Math.round(probability * 1000): long division by the denominator, one
\* decimal digit at a time, then rounding half up as Math.round does.
RoundPerMille(p) ==
    LET q0 == p.num \div p.den
        r0 == p.num % p.den
        d1 == (10 * r0) \div p.den
        r1 == (10 * r0) % p.den
        d2 == (10 * r1) \div p.den
        r2 == (10 * r1) % p.den
        d3 == (10 * r2) \div p.den
        r3 == (10 * r2) % p.den
    IN  1000 * q0 + 100 * d1 + 10 * d2 + d3 + (IF 2 * r3 >= p.den THEN 1 ELSE 0)

\* Mutant of Percentage: Math.floor in place of Math.round.
PercentageTruncated(probability) ==
    LET q0 == probability.num \div probability.den
        r0 == probability.num % probability.den
        d1 == (10 * r0) \div probability.den
        r1 == (10 * r0) % probability.den
        d2 == (10 * r1) \div probability.den
        r2 == (10 * r1) % probability.den
        d3 == (10 * r2) \div probability.den
    IN  1000 * q0 + 100 * d1 + 10 * d2 + d3

\* const percentage = Math.round(probability * 1000) / 10, in tenths.
Percentage(probability) == RoundPerMille(probability)

----------------------------------------------------------------------------
\* Map<number, number> as a sequence of entries in insertion order.

MapHas(m, k) == \E i \in 1..Len(m) : m[i].key = k

MapIndex(m, k) == CHOOSE i \in 1..Len(m) : m[i].key = k

\* m.get(k) || 0
GetOrZero(m, k) == IF MapHas(m, k) THEN m[MapIndex(m, k)].value ELSE Zero

\* m.set(k, v): an existing key keeps its place, a new key goes last.
MapSet(m, k, v) ==
    IF MapHas(m, k)
    THEN [m EXCEPT ![MapIndex(m, k)] = [key |-> k, value |-> v]]
    ELSE Append(m, [key |-> k, value |-> v])

----------------------------------------------------------------------------
\* calculateBaseDistribution, the pieces of its body.

\* Mutant of InitialProb: the first die gets one share too many.
InitialProbOffByOne(sides) == OneOver(sides + 1)

\* distribution.set(i, 1 / diceType)
InitialProb(sides) == OneOver(sides)

RECURSIVE FirstDieFrom(_, _, _)
FirstDieFrom(dist, i, sides) ==
    IF i > sides THEN dist
    ELSE LET next == MapSet(dist, i, InitialProb(sides))
         IN  IF Evaluated(next) THEN FirstDieFrom(next, i + 1, sides) ELSE next

\* for (let i = 1; i <= diceType; i++) on a new Map
FirstDie(sides) == FirstDieFrom(<<>>, 1, sides)

\* Mutant of NewValue: faces counted from 0.
NewValueOffByOne(existingValue, dieValue) == existingValue + dieValue - 1

\* const newValue = existingValue + dieValue
NewValue(existingValue, dieValue) == existingValue + dieValue

\* Mutant of NewProb: the factor 1 / diceType is forgotten.
NewProbUndivided(existingProb, sides) == existingProb

\* const newProb = existingProb * (1 / diceType)
NewProb(existingProb, sides) == RMul(existingProb, OneOver(sides))

\* Mutant of Accumulate: the mass already in the bucket is overwritten.
AccumulateOverwrite(newDistribution, newValue, newProb) ==
    MapSet(newDistribution, newValue, newProb)

\* newDistribution.set(newValue, currentProb + newProb)
Accumulate(newDistribution, newValue, newProb) ==
    MapSet(newDistribution, newValue,
           RAdd(GetOrZero(newDistribution, newValue), newProb))

\* for (let dieValue = 1; dieValue <= diceType; dieValue++) { ... }
RECURSIVE AddDieValues(_, _, _, _)
AddDieValues(newDistribution, entry, dieValue, sides) ==
    IF dieValue > sides THEN newDistribution
    ELSE LET next == Accumulate(newDistribution,
                                NewValue(entry.key, dieValue),
                                NewProb(entry.value, sides))
         IN  IF Evaluated(next)
             THEN AddDieValues(next, entry, dieValue + 1, sides)
             ELSE next

\* for (const [existingValue, existingProb] of distribution) { ... }
RECURSIVE ConvolveFrom(_, _, _, _)
ConvolveFrom(newDistribution, dist, i, sides) ==
    IF i > Len(dist) THEN newDistribution
    ELSE LET next == AddDieValues(newDistribution, dist[i], 1, sides)
         IN  IF Evaluated(next) THEN ConvolveFrom(next, dist, i + 1, sides)
             ELSE next

\* One convolution step: the running distribution with one more die.
ConvolveDie(dist, sides) == ConvolveFrom(<<>>, dist, 1, sides)

\* Mutant of ShiftedKey: the modifier is subtracted.
ShiftedKeyWrongSign(value, mod) == value - mod

\* resultsWithModifier.set(value + modifier, prob)
ShiftedKey(value, mod) == value + mod

RECURSIVE ApplyModifierFrom(_, _, _, _)
ApplyModifierFrom(shifted, dist, i, mod) ==
    IF i > Len(dist) THEN shifted
    ELSE LET next == MapSet(shifted, ShiftedKey(dist[i].key, mod),
                            dist[i].value)
         IN  IF Evaluated(next) THEN ApplyModifierFrom(next, dist, i + 1, mod)
             ELSE next

ApplyModifier(dist, mod) == ApplyModifierFrom(<<>>, dist, 1, mod)

\* Mutant of ToResults: entries of probability below 0.001 are left out.
ToResultsFiltered(m) ==
    SelectSeq([i \in 1..Len(m) |->
                  [result |-> m[i].key,
                   probability |-> m[i].value,
                   percentage |-> Percentage(m[i].value)]],
              LAMBDA r : 1000 * r.probability.num >= r.probability.den)

\* results.push({ result, probability, percentage }) for each Map entry
ToResults(m) ==
    [i \in 1..Len(m) |->
        [result |-> m[i].key,
         probability |-> m[i].value,
         percentage |-> Percentage(m[i].value)]]

\* Mutant of InsertByResult: the comparator is b.result - a.result.
RECURSIVE InsertByResultDescending(_, _)
InsertByResultDescending(sorted, r) ==
    IF sorted = <<>> THEN <<r>>
    ELSE IF sorted[Len(sorted)].result >= r.result
         THEN Append(sorted, r)
         ELSE Append(InsertByResultDescending(
                         SubSeq(sorted, 1, Len(sorted) - 1), r),
                     sorted[Len(sorted)])

\* results.sort((a, b) => a.result - b.result): a stable sort.
RECURSIVE InsertByResult(_, _)
InsertByResult(sorted, r) ==
    IF sorted = <<>> THEN <<r>>
    ELSE IF sorted[Len(sorted)].result <= r.result
         THEN Append(sorted, r)
         ELSE Append(InsertByResult(SubSeq(sorted, 1, Len(sorted) - 1), r),
                     sorted[Len(sorted)])

RECURSIVE SortFrom(_, _, _)
SortFrom(sorted, arr, i) ==
    IF i > Len(arr) THEN sorted
    ELSE LET next == InsertByResult(sorted, arr[i])
         IN  IF Evaluated(next) THEN SortFrom(next, arr, i + 1) ELSE next

SortByResult(arr) == SortFrom(<<>>, arr, 1)

\* Lines 104-125: shift by the modifier, convert to an array, sort.
BuildResults(dist, mod) == SortByResult(ToResults(ApplyModifier(dist, mod)))

\* The loop of lines 73-97 run to its end without a cancellation.
RECURSIVE ConvolveDice(_, _, _, _)
ConvolveDice(dist, d, count, sides) ==
    IF d > count THEN dist
    ELSE LET next == ConvolveDie(dist, sides)
         IN  IF Evaluated(next) THEN ConvolveDice(next, d + 1, count, sides)
             ELSE next

\* calculateBaseDistribution when the flag is never set.
UncancelledBase(count, sides, mod) ==
    BuildResults(ConvolveDice(FirstDie(sides), 2, count, sides), mod)

----------------------------------------------------------------------------
\* calculateAdvantageDisadvantageDistribution

Max(a, b) == IF a >= b THEN a ELSE b
Min(a, b) == IF a <= b THEN a ELSE b

\* Mutant of TakenValue: the two branches are swapped.
TakenValueSwapped(mode, first, second) ==
    IF mode = "advantage" THEN Min(first, second) ELSE Max(first, second)

\* rollMode === 'advantage' ? Math.max(...) : Math.min(...)
TakenValue(mode, first, second) ==
    IF mode = "advantage" THEN Max(first, second) ELSE Min(first, second)

\* Mutant of CombinedProb: the two probabilities are added.
CombinedProbSum(first, second) == RAdd(first.probability, second.probability)

\* const combinedProb = first.probability * second.probability
CombinedProb(first, second) == RMul(first.probability, second.probability)

\* for (const second of baseDistribution) { ... }
RECURSIVE SecondRollFrom(_, _, _, _, _)
SecondRollFrom(newDistribution, first, base, j, mode) ==
    IF j > Len(base) THEN newDistribution
    ELSE LET next == Accumulate(newDistribution,
                                TakenValue(mode, first.result, base[j].result),
                                CombinedProb(first, base[j]))
         IN  IF Evaluated(next)
             THEN SecondRollFrom(next, first, base, j + 1, mode)
             ELSE next

\* for (const first of baseDistribution) { ... }
RECURSIVE FirstRollFrom(_, _, _, _)
FirstRollFrom(newDistribution, base, i, mode) ==
    IF i > Len(base) THEN newDistribution
    ELSE LET next == SecondRollFrom(newDistribution, base[i], base, 1, mode)
         IN  IF Evaluated(next) THEN FirstRollFrom(next, base, i + 1, mode)
             ELSE next

\* The function is synchronous, so the flag it reads at the top of every
\* outer iteration is the one it was entered with.
calculateAdvantageDisadvantageDistribution(base, mode, cancelled) ==
    IF cancelled /\ Len(base) > 0 THEN <<>>
    ELSE SortByResult(ToResults(FirstRollFrom(<<>>, base, 1, mode)))

\* Mutant of DistributionFromBase: the test for 'normal' is missing.
DistributionFromBaseAlwaysTransformed(base, mode, cancelled) ==
    IF cancelled \/ Len(base) = 0 THEN <<>>
    ELSE calculateAdvantageDisadvantageDistribution(base, mode, cancelled)

\* calculateDistribution after the base distribution is there (lines 36-51).
DistributionFromBase(base, mode, cancelled) ==
    IF cancelled \/ Len(base) = 0 THEN <<>>
    ELSE IF mode = "normal" THEN base
    ELSE calculateAdvantageDisadvantageDistribution(base, mode, cancelled)

----------------------------------------------------------------------------
\* calculateGoalProbability

\* Mutant of IncludeResult: the cumulative operators leave the goal out.
IncludeResultStrict(cmp, result, goal) ==
    CASE cmp = "exactly" -> result = goal
      [] cmp = "orHigher" -> result > goal
      [] cmp = "orLower" -> result < goal
      [] OTHER -> FALSE

\* Mutant of IncludeResult: the cumulative operators point the wrong way.
IncludeResultSwapped(cmp, result, goal) ==
    CASE cmp = "exactly" -> result = goal
      [] cmp = "orHigher" -> result <= goal
      [] cmp = "orLower" -> result >= goal
      [] OTHER -> FALSE

\* Mutant of IncludeResult: orLower leaves out the goal itself.
IncludeResultLowerExclusive(cmp, result, goal) ==
    CASE cmp = "exactly" -> result = goal
      [] cmp = "orHigher" -> result >= goal
      [] cmp = "orLower" -> result < goal
      [] OTHER -> FALSE

\* the switch (comparison) that sets includeResult
IncludeResult(cmp, result, goal) ==
    CASE cmp = "exactly" -> result = goal
      [] cmp = "orHigher" -> result >= goal
      [] cmp = "orLower" -> result <= goal
      [] OTHER -> FALSE

RECURSIVE GoalFrom(_, _, _, _, _)
GoalFrom(total, arr, i, goal, cmp) ==
    IF i > Len(arr) THEN total
    ELSE LET next == IF IncludeResult(cmp, arr[i].result, goal)
                     THEN RAdd(total, arr[i].probability)
                     ELSE total
         IN  IF Evaluated(next) THEN GoalFrom(next, arr, i + 1, goal, cmp)
             ELSE next

GoalProbability(arr, goal, cmp) == GoalFrom(Zero, arr, 1, goal, cmp)

----------------------------------------------------------------------------
\* CalculatorService.calculateGoalResult and the formatting of the
\* components.

\* A value that may be null is a sequence: <<>> for null, <<v>> for v.
Null == <<>>
Some(v) == <<v>>

\* Mutant of DisplayText: the phrases of the cumulative operators are
\* exchanged.
DisplayTextExchanged(goal, cmp) ==
    CASE cmp = "exactly" -> ToString(goal) \o " exactly"
      [] cmp = "orHigher" -> ToString(goal) \o " or lower"
      [] cmp = "orLower" -> ToString(goal) \o " or higher"
      [] OTHER -> ""

\* the switch (comparison) that sets displayText
DisplayText(goal, cmp) ==
    CASE cmp = "exactly" -> ToString(goal) \o " exactly"
      [] cmp = "orHigher" -> ToString(goal) \o " or higher"
      [] cmp = "orLower" -> ToString(goal) \o " or lower"
      [] OTHER -> ""

\* calculateGoalResult for a goal that is not null: what it sets goalResult
\* to.
GoalResultOf(arr, goal, cmp) ==
    IF Len(arr) = 0 THEN Null
    ELSE LET probability == GoalProbability(arr, goal, cmp)
         IN  Some([goalNumber |-> goal,
                   comparison |-> cmp,
                   probability |-> probability,
                   percentage |-> Percentage(probability),
                   displayText |-> DisplayText(goal, cmp)])

\* percentage.toFixed(1), the percentage being given in tenths.
ToFixed1(tenths) == ToString(tenths \div 10) \o "." \o ToString(tenths % 10)

\* probability > 0 && probability < 0.001
TinyButPossible(probability) ==
    /\ probability.num > 0
    /\ probability.num <= (probability.den - 1) \div 1000

\* Mutant of formatPercentage: the raw probability is not looked at.
formatPercentageUnguarded(probability, percentage) == ToFixed1(percentage)

\* formatPercentage of GoalResultComponent and ProbabilityTableComponent
formatPercentage(probability, percentage) ==
    IF TinyButPossible(probability) THEN "<0.1" ELSE ToFixed1(percentage)

----------------------------------------------------------------------------
\* CalculatorService: constants, inputs and the state after construction.

\* debounceTime(300)
DebounceTime == 300

\* count > 100
MaxDiceCount == 100

\* Bounds of the service model: time advances in steps of TickMs
\* milliseconds, and the setter calls of a burst are counted up to MaxBurst.
TickMs == 150
MaxBurst == 2

\* The token objects ({ cancelled: boolean }) that are referred to at one
\* time: the one a suspended calculation holds, and the current one.
TokenIds == {1, 2}

\* The arguments the setters are called with.  A DiceType is the sequence
\* of its characters.
DiceCountInputs == {0, 1, 6, 10, MaxDiceCount + 1}
DiceTypeInputs == {Null, Some(<<"d", "4">>)}
ModifierInputs == {0, 1}
GoalNumberInputs == {Null, Some(7)}

\* The field initialisers, and the first run of the effect, which finds no
\* results and sets goalResult to null.
InitService ==
    /\ diceCountSignal = 1
    /\ diceTypeSignal = Null
    /\ modifierSignal = 0
    /\ goalNumberSignal = Null
    /\ goalComparison = "orHigher"
    /\ probabilityResults = <<>>
    /\ isCalculating = FALSE
    /\ goalResultSignal = Null
    /\ currentCancellationToken = 1
    /\ cancelledOf = [t \in TokenIds |-> FALSE]
    /\ calls = {}
    /\ debounceTimer = Null
    /\ sinceSetter = Null
    /\ started = 0
    /\ burst = 0

\* ProbabilityTableComponent: the field initialisers.
InitTable ==
    /\ tableResults = <<>>
    /\ sortColumn = "result"
    /\ sortDirection = "asc"

----------------------------------------------------------------------------
\* The state machine of one call.

\* if (die % 5 === 0) await new Promise(resolve => setTimeout(resolve, 0))
YieldEvery == 5

Init ==
    /\ pc = "idle"
    /\ diceCount = 0
    /\ diceType = 0
    /\ modifier = 0
    /\ rollMode = "normal"
    /\ cancelSignal = FALSE
    /\ die = 0
    /\ distribution = <<>>
    /\ baseDistribution = <<>>
    /\ results = <<>>
    /\ goalNumber = 0
    /\ comparison = "exactly"
    /\ totalProbability = Zero
    /\ goalResult = Null
    /\ InitService
    /\ InitTable

\* The call, up to the first test of the loop: the first die is set up.  The
\* token may already be cancelled when it is passed in.
calculateDistribution(count, sides, mod, mode, cancelled) ==
    /\ pc = "idle"
    /\ Pow(sides, count) <= MaxTuples
    /\ pc' = "loop"
    /\ diceCount' = count
    /\ diceType' = sides
    /\ modifier' = mod
    /\ rollMode' = mode
    /\ cancelSignal' = cancelled
    /\ die' = 2
    /\ distribution' = FirstDie(sides)
    /\ baseDistribution' = <<>>
    /\ results' = <<>>
    /\ UNCHANGED <<goalNumber, comparison, totalProbability, goalResult>>
    /\ UNCHANGED <<serviceVars, tableVars>>

\* Mutant of ConvolutionStep: the iteration does not look at the flag.
ConvolutionStepUnchecked ==
    /\ pc = "loop"
    /\ die <= diceCount
    /\ distribution' = ConvolveDie(distribution, diceType)
    /\ die' = die + 1
    /\ pc' = IF die % YieldEvery = 0 THEN "yield" ELSE "loop"
    /\ UNCHANGED <<diceCount, diceType, modifier, rollMode, cancelSignal,
                   baseDistribution, results, goalNumber, comparison,
                   totalProbability, goalResult>>
    /\ UNCHANGED <<serviceVars, tableVars>>

\* One iteration of the loop with the flag clear: convolve, then yield when
\* the die index is a multiple of 5.
ConvolutionStep ==
    /\ pc = "loop"
    /\ die <= diceCount
    /\ ~cancelSignal
    /\ distribution' = ConvolveDie(distribution, diceType)
    /\ die' = die + 1
    /\ pc' = IF die % YieldEvery = 0 THEN "yield" ELSE "loop"
    /\ UNCHANGED <<diceCount, diceType, modifier, rollMode, cancelSignal,
                   baseDistribution, results, goalNumber, comparison,
                   totalProbability, goalResult>>
    /\ UNCHANGED <<serviceVars, tableVars>>

\* One iteration of the loop with the flag set: return [] (line 75), which
\* calculateDistribution passes on (line 37).
CancelledInLoop ==
    /\ pc = "loop"
    /\ die <= diceCount
    /\ cancelSignal
    /\ baseDistribution' = <<>>
    /\ results' = DistributionFromBase(<<>>, rollMode, cancelSignal)
    /\ pc' = "done"
    /\ UNCHANGED <<diceCount, diceType, modifier, rollMode, cancelSignal, die,
                   distribution, goalNumber, comparison, totalProbability,
                   goalResult>>
    /\ UNCHANGED <<serviceVars, tableVars>>

\* While the call is suspended in setTimeout the owner of the token may set
\* its flag.
CancelDuringYield ==
    /\ pc = "yield"
    /\ ~cancelSignal
    /\ cancelSignal' = TRUE
    /\ UNCHANGED <<pc, diceCount, diceType, modifier, rollMode, die,
                   distribution, baseDistribution, results, goalNumber,
                   comparison, totalProbability,
                   goalResult>>
    /\ UNCHANGED <<serviceVars, tableVars>>

\* Mutant of ResumeAfterYield: the loop variable is advanced once more when
\* the call resumes, so the die after a yield is left out.
ResumeAfterYieldLosingDie ==
    /\ pc = "yield"
    /\ pc' = "loop"
    /\ die' = die + 1
    /\ UNCHANGED <<diceCount, diceType, modifier, rollMode, cancelSignal,
                   distribution, baseDistribution, results, goalNumber,
                   comparison, totalProbability, goalResult>>
    /\ UNCHANGED <<serviceVars, tableVars>>

\* The timer fires and the loop goes on with its next test.
ResumeAfterYield ==
    /\ pc = "yield"
    /\ pc' = "loop"
    /\ UNCHANGED <<diceCount, diceType, modifier, rollMode, cancelSignal, die,
                   distribution, baseDistribution, results, goalNumber,
                   comparison, totalProbability,
                   goalResult>>
    /\ UNCHANGED <<serviceVars, tableVars>>

\* Mutant of FinalProcessing: the flag is not looked at after the loop,
\* neither at line 100 nor at line 36.
FinalProcessingIgnoringCancel ==
    /\ pc = "loop"
    /\ die > diceCount
    /\ LET base == BuildResults(distribution, modifier)
       IN  /\ baseDistribution' = base
           /\ results' = DistributionFromBase(base, rollMode, FALSE)
    /\ pc' = "done"
    /\ UNCHANGED <<diceCount, diceType, modifier, rollMode, cancelSignal, die,
                   distribution, goalNumber, comparison, totalProbability,
                   goalResult>>
    /\ UNCHANGED <<serviceVars, tableVars>>

\* Mutant of BaseAfterTransform: the transform works in place, and the
\* array it was given holds the transformed distribution afterwards.
BaseAfterTransformInPlace(base, mode) ==
    calculateAdvantageDisadvantageDistribution(base, mode, FALSE)

\* The array calculateAdvantageDisadvantageDistribution was given, after the
\* call: the function iterates it (lines 146-147) and reads first.result,
\* first.probability, second.result and second.probability; it assigns to
\* newDistribution and to its own results array only, which it also sorts.
BaseAfterTransform(base, mode) == base

\* baseDistribution of calculateDistribution when it returns: the transform
\* is called with it in the modes other than normal (lines 40-51).
BaseAfterDistribution(base, mode, cancelled) ==
    IF cancelled \/ Len(base) = 0 \/ mode = "normal" THEN base
    ELSE BaseAfterTransform(base, mode)

\* After the loop: the last cancellation check, the modifier shift, the
\* array, the sort (lines 99-125), and the rest of calculateDistribution,
\* which resumes in a microtask of the same task (lines 36-51).
FinalProcessing ==
    /\ pc = "loop"
    /\ die > diceCount
    /\ LET base == IF cancelSignal THEN <<>>
                   ELSE BuildResults(distribution, modifier)
       IN  /\ baseDistribution' =
                  BaseAfterDistribution(base, rollMode, cancelSignal)
           /\ results' = DistributionFromBase(base, rollMode, cancelSignal)
    /\ pc' = "done"
    /\ UNCHANGED <<diceCount, diceType, modifier, rollMode, cancelSignal, die,
                   distribution, goalNumber, comparison, totalProbability,
                   goalResult>>
    /\ UNCHANGED <<serviceVars, tableVars>>

\* The goals that are asked of a returned array: every result in it and
\* GoalMargin values below and above.
RECURSIVE MinResult(_, _)
MinResult(arr, i) ==
    IF i = Len(arr) THEN arr[i].result
    ELSE Min(arr[i].result, MinResult(arr, i + 1))

RECURSIVE MaxResult(_, _)
MaxResult(arr, i) ==
    IF i = Len(arr) THEN arr[i].result
    ELSE Max(arr[i].result, MaxResult(arr, i + 1))

GoalNumbers(arr) ==
    IF arr = <<>> THEN (0 - GoalMargin)..GoalMargin
    ELSE (MinResult(arr, 1) - GoalMargin)..(MaxResult(arr, 1) + GoalMargin)

\* Every goal any explored call can be asked.
GoalRange ==
    (0 - MaxModifier - GoalMargin)..(MaxDice * MaxSides + MaxModifier + GoalMargin)

\* calculateGoalProbability on the returned array, as calculateGoalResult
\* calls it, and the GoalResult made of its answer.
calculateGoalProbability(goal, cmp) ==
    /\ pc = "done"
    /\ goal \in GoalNumbers(results)
    /\ goalNumber' = goal
    /\ comparison' = cmp
    /\ totalProbability' = GoalProbability(results, goal, cmp)
    /\ goalResult' = GoalResultOf(results, goal, cmp)
    /\ pc' = "goal"
    /\ UNCHANGED <<diceCount, diceType, modifier, rollMode, cancelSignal, die,
                   distribution, baseDistribution, results>>
    /\ UNCHANGED <<serviceVars, tableVars>>

\* The caller drops the array; the engine keeps nothing of the call.
Discard ==
    /\ pc \in {"done", "goal"}
    /\ pc' = "idle"
    /\ diceCount' = 0
    /\ diceType' = 0
    /\ modifier' = 0
    /\ rollMode' = "normal"
    /\ cancelSignal' = FALSE
    /\ die' = 0
    /\ distribution' = <<>>
    /\ baseDistribution' = <<>>
    /\ results' = <<>>
    /\ goalNumber' = 0
    /\ comparison' = "exactly"
    /\ totalProbability' = Zero
    /\ goalResult' = Null
    /\ UNCHANGED <<serviceVars, tableVars>>

Next ==
    \/ \E count \in 0..MaxDice, sides \in 0..MaxSides,
          mod \in (0 - MaxModifier)..MaxModifier,
          mode \in RollModes, cancelled \in BOOLEAN :
          calculateDistribution(count, sides, mod, mode, cancelled)
    \/ ConvolutionStep
    \/ CancelledInLoop
    \/ CancelDuringYield
    \/ ResumeAfterYield
    \/ FinalProcessing
    \/ \E goal \in GoalRange, cmp \in GoalComparisons :
          calculateGoalProbability(goal, cmp)
    \/ Discard

Spec == Init /\ [][Next]_vars

----------------------------------------------------------------------------
\* CalculatorService.  JavaScript runs one task at a time: a setter, the
\* emission of the debounce timer and the resumption of a suspended
\* calculation are each one step, which runs up to the next setTimeout of
\* the engine or to the end of executeCalculation (the await of line 110
\* resumes in a microtask of the same task), followed by the effect of
\* the constructor when a signal it reads has changed.  The service calls
\* calculateDistribution(count, sides, mod, token), the revision of the
\* engine with four parameters, whose body is that of
\* calculateBaseDistribution.

\* type.substring(1)
substring(type, start) == SubSeq(type, start + 1, Len(type))

DigitValue(c) ==
    CASE c = "0" -> 0 [] c = "1" -> 1 [] c = "2" -> 2 [] c = "3" -> 3
      [] c = "4" -> 4 [] c = "5" -> 5 [] c = "6" -> 6 [] c = "7" -> 7
      [] c = "8" -> 8 [] c = "9" -> 9

\* parseInt on a string of decimal digits: it reads digits up to the first
\* character that is none.
RECURSIVE ParseIntFrom(_, _, _)
ParseIntFrom(chars, i, n) ==
    IF i > Len(chars)
          \/ chars[i] \notin {"0", "1", "2", "3", "4", "5", "6", "7", "8", "9"}
    THEN n
    ELSE ParseIntFrom(chars, i + 1, 10 * n + DigitValue(chars[i]))

parseInt(chars) == ParseIntFrom(chars, 1, 0)

\* The negation of the test of line 97.
ValidInputs(count, type) ==
    ~(count <= 0 \/ count > MaxDiceCount \/ type = Null)

\* calculateDistribution from the loop test for die d to its next
\* setTimeout or to its return.  No other code runs in between, so the flag
\* has one value throughout.
RECURSIVE RunLoop(_, _, _, _, _, _)
RunLoop(count, sides, mod, d, dist, cancelled) ==
    IF d > count
    THEN [suspended |-> FALSE,
          results |-> IF cancelled THEN <<>> ELSE BuildResults(dist, mod)]
    ELSE IF cancelled THEN [suspended |-> FALSE, results |-> <<>>]
    ELSE LET next == ConvolveDie(dist, sides)
         IN  IF d % YieldEvery = 0
             THEN [suspended |-> TRUE, die |-> d + 1, distribution |-> next]
             ELSE IF Evaluated(next)
                  THEN RunLoop(count, sides, mod, d + 1, next, cancelled)
                  ELSE [suspended |-> FALSE, results |-> <<>>]

\* The tokens the suspended calculations hold.
HeldTokens == {c.token : c \in calls}

\* { cancelled: false }: a new object.  It gets the first identity that no
\* suspended calculation holds; the field is about to refer to it, so the
\* identity of the object the field leaves is free unless a calculation
\* holds it.
FreshToken(current, held) ==
    CHOOSE t \in TokenIds \ held : \A u \in TokenIds \ held : t <= u

\* Mutant of cancelCurrentCalculation: the old token is replaced without
\* being marked.
cancelCurrentCalculationWithoutMark(heap, current, held) ==
    LET fresh == FreshToken(current, held)
    IN  [currentCancellationToken |-> fresh,
         cancelledOf |-> [t \in TokenIds |->
                            IF t \in held THEN heap[t] ELSE FALSE]]

\* cancelCurrentCalculation: the current token is marked and a new one takes
\* its place.  An object nothing refers to any more is forgotten (its flag
\* reads FALSE here).
cancelCurrentCalculation(heap, current, held) ==
    LET fresh == FreshToken(current, held)
        marked == [heap EXCEPT ![current] = TRUE]
    IN  [currentCancellationToken |-> fresh,
         cancelledOf |-> [t \in TokenIds |->
                            IF t \in held THEN marked[t] ELSE FALSE]]

\* Mutant of debounceTime: a timer that is running is left running.
debounceTimeKeepingFirst(pending) ==
    IF pending # Null THEN pending[1] ELSE DebounceTime

\* debounceTime(300) on calculationTrigger$.next(): the timer starts anew,
\* whatever was pending.
debounceTime(pending) == DebounceTime

\* triggerCalculation
triggerCalculation ==
    LET after == cancelCurrentCalculation(cancelledOf,
                                          currentCancellationToken,
                                          HeldTokens)
    IN  /\ currentCancellationToken' = after.currentCancellationToken
        /\ cancelledOf' = after.cancelledOf
        /\ debounceTimer' = Some(debounceTime(debounceTimer))
        /\ sinceSetter' = Some(0)
        /\ started' = 0
        /\ burst' = IF debounceTimer = Null THEN 1
                    ELSE Min(burst + 1, MaxBurst)

setDiceCount(count) ==
    /\ diceCountSignal' = count
    /\ triggerCalculation
    /\ UNCHANGED <<diceTypeSignal, modifierSignal, goalNumberSignal,
                   goalComparison, probabilityResults, isCalculating,
                   goalResultSignal, calls>>
    /\ UNCHANGED <<engineVars, tableVars>>

setDiceType(type) ==
    /\ diceTypeSignal' = type
    /\ triggerCalculation
    /\ UNCHANGED <<diceCountSignal, modifierSignal, goalNumberSignal,
                   goalComparison, probabilityResults, isCalculating,
                   goalResultSignal, calls>>
    /\ UNCHANGED <<engineVars, tableVars>>

setModifier(mod) ==
    /\ modifierSignal' = mod
    /\ triggerCalculation
    /\ UNCHANGED <<diceCountSignal, diceTypeSignal, goalNumberSignal,
                   goalComparison, probabilityResults, isCalculating,
                   goalResultSignal, calls>>
    /\ UNCHANGED <<engineVars, tableVars>>

\* Mutant of GoalEffect: with a goal set and no results the effect leaves
\* goalResult as it is.
GoalEffectKeepingStale(res, goal, cmp) ==
    IF goal = Null THEN Null
    ELSE IF Len(res) > 0 THEN GoalResultOf(res, goal[1], cmp)
    ELSE goalResultSignal

\* The effect of the constructor, with the calculateGoalResult it calls.
GoalEffect(res, goal, cmp) ==
    IF Len(res) > 0 /\ goal # Null THEN GoalResultOf(res, goal[1], cmp)
    ELSE Null

setGoalNumber(goal) ==
    /\ goalNumberSignal' = goal
    /\ goalResultSignal' = GoalEffect(probabilityResults, goal, goalComparison)
    /\ UNCHANGED <<diceCountSignal, diceTypeSignal, modifierSignal,
                   goalComparison, probabilityResults, isCalculating,
                   currentCancellationToken, cancelledOf, calls,
                   debounceTimer, sinceSetter, started, burst>>
    /\ UNCHANGED <<engineVars, tableVars>>

setGoalComparison(cmp) ==
    /\ goalComparison' = cmp
    /\ goalResultSignal' = GoalEffect(probabilityResults, goalNumberSignal, cmp)
    /\ UNCHANGED <<diceCountSignal, diceTypeSignal, modifierSignal,
                   goalNumberSignal, probabilityResults, isCalculating,
                   currentCancellationToken, cancelledOf, calls,
                   debounceTimer, sinceSetter, started, burst>>
    /\ UNCHANGED <<engineVars, tableVars>>

\* Time passes while the debounce timer runs; it does not pass the moment
\* the timer is due without the timer emitting.
Tick ==
    /\ debounceTimer # Null
    /\ debounceTimer[1] > 0
    /\ LET dt == Min(TickMs, debounceTimer[1])
       IN  /\ debounceTimer' = Some(debounceTimer[1] - dt)
           /\ sinceSetter' = Some(sinceSetter[1] + dt)
    /\ UNCHANGED <<diceCountSignal, diceTypeSignal, modifierSignal,
                   goalNumberSignal, goalComparison, probabilityResults,
                   isCalculating, goalResultSignal, currentCancellationToken,
                   cancelledOf, calls, started, burst>>
    /\ UNCHANGED <<engineVars, tableVars>>

\* Mutant of ResultsAfterCalculation: the array the engine returned is not
\* written.
ResultsAfterCalculationDropped(res) == probabilityResults

\* Lines 117-120: what probabilityResults is after the engine has returned
\* res: the test reads the field currentCancellationToken again.
ResultsAfterCalculation(res) ==
    IF ~cancelledOf[currentCancellationToken] THEN res ELSE probabilityResults

\* Mutant of isCalculatingAfterFinally: there is no finally block, and the
\* value set at line 106 stays.
isCalculatingWithoutFinally == TRUE

\* finally { this.isCalculating.set(false) }
isCalculatingAfterFinally == FALSE

\* The debounce timer emits and executeCalculation runs up to the first
\* setTimeout of the engine, or to its end.  No calculation is suspended at
\* that moment: the timer that emits was started by a setter, which
\* cancelled the calculation then suspended, whose setTimeout(0) was set
\* before that and so runs before the timer (timers run in the order in
\* which they are due), and a cancelled calculation returns at its next
\* test of the flag.
executeCalculation ==
    /\ debounceTimer = Some(0)
    /\ calls = {}
    /\ debounceTimer' = Null
    /\ started' = started + 1
    /\ IF ~ValidInputs(diceCountSignal, diceTypeSignal)
       THEN /\ probabilityResults' = <<>>
            /\ UNCHANGED <<isCalculating, calls>>
       ELSE LET sides == parseInt(substring(diceTypeSignal[1], 1))
                run == RunLoop(diceCountSignal, sides, modifierSignal, 2,
                               FirstDie(sides),
                               cancelledOf[currentCancellationToken])
            IN  IF run.suspended
                THEN /\ calls' = calls \cup
                            {[count |-> diceCountSignal,
                              sides |-> sides,
                              mod |-> modifierSignal,
                              token |-> currentCancellationToken,
                              die |-> run.die,
                              distribution |-> run.distribution]}
                     /\ isCalculating' = TRUE
                     /\ UNCHANGED probabilityResults
                ELSE /\ probabilityResults' =
                            ResultsAfterCalculation(run.results)
                     /\ isCalculating' = isCalculatingAfterFinally
                     /\ UNCHANGED calls
    /\ goalResultSignal' =
           GoalEffect(probabilityResults', goalNumberSignal, goalComparison)
    /\ UNCHANGED <<diceCountSignal, diceTypeSignal, modifierSignal,
                   goalNumberSignal, goalComparison, currentCancellationToken,
                   cancelledOf, sinceSetter, burst>>
    /\ UNCHANGED <<engineVars, tableVars>>

\* The setTimeout of the suspended calculation that holds the token
\* resolves: the engine goes on to its next setTimeout or returns, and
\* executeCalculation finishes.
resumeCalculation(token) ==
    /\ \E c \in calls :
          /\ c.token = token
          /\ LET run == RunLoop(c.count, c.sides, c.mod, c.die,
                                c.distribution, cancelledOf[c.token])
             IN  IF run.suspended
                 THEN /\ calls' = (calls \ {c}) \cup
                             {[c EXCEPT !.die = run.die,
                                        !.distribution = run.distribution]}
                      /\ UNCHANGED <<probabilityResults, isCalculating,
                                     cancelledOf>>
                 ELSE /\ calls' = calls \ {c}
                      /\ probabilityResults' =
                             ResultsAfterCalculation(run.results)
                      /\ isCalculating' = isCalculatingAfterFinally
                      /\ cancelledOf' =
                             IF c.token = currentCancellationToken
                             THEN cancelledOf
                             ELSE [cancelledOf EXCEPT ![c.token] = FALSE]
    /\ goalResultSignal' =
           GoalEffect(probabilityResults', goalNumberSignal, goalComparison)
    /\ UNCHANGED <<diceCountSignal, diceTypeSignal, modifierSignal,
                   goalNumberSignal, goalComparison, currentCancellationToken,
                   debounceTimer, sinceSetter, started, burst>>
    /\ UNCHANGED <<engineVars, tableVars>>

NextService ==
    \/ \E count \in DiceCountInputs : setDiceCount(count)
    \/ \E type \in DiceTypeInputs : setDiceType(type)
    \/ \E mod \in ModifierInputs : setModifier(mod)
    \/ \E goal \in GoalNumberInputs : setGoalNumber(goal)
    \/ \E cmp \in GoalComparisons : setGoalComparison(cmp)
    \/ Tick
    \/ executeCalculation
    \/ \E token \in TokenIds : resumeCalculation(token)

SpecService == Init /\ [][NextService]_vars

\* executeCalculation is enabled exactly when the debounce timer is due and
\* no calculation is suspended, and it is the only step that counts an
\* execution.
ExecutionDue == debounceTimer = Some(0) /\ calls = {}
ExecutionRuns == ExecutionDue /\ started' = started + 1

\* resumeCalculation is enabled, for some token, exactly when a calculation
\* is suspended, and it is the only step that changes a suspended
\* calculation.
CalculationSuspended == calls # {}
TimeoutRuns == CalculationSuspended /\ calls' # calls

\* The service under fair scheduling: time passes while the debounce timer
\* runs, the event loop runs the timer's emission when it is due, and it
\* runs the setTimeout of a suspended calculation (weak fairness of Tick,
\* of executeCalculation and of resumeCalculation, the latter two written
\* out with their enabling conditions).  Nothing obliges the user to call a
\* setter.
SpecServiceFair ==
    /\ SpecService
    /\ WF_vars(Tick)
    /\ ([]<>(~ExecutionDue) \/ []<><<ExecutionRuns>>_vars)
    /\ ([]<>(~CalculationSuspended) \/ []<><<TimeoutRuns>>_vars)

----------------------------------------------------------------------------
\* ProbabilityTableComponent.  Its results input is bound to the array the
\* service holds, which is an array calculateDistribution returned or [].

\* maxResults.length <= 3
MaxEmphasised == 3

\* Bound: the arrays given to the table are those of 1..MaxTableDice dice.
MaxTableDice == 3

SortColumns == {"result", "percentage"}

\* The values of the results input.
TableInputs ==
    {<<>>} \cup
    {DistributionFromBase(UncancelledBase(count, sides, 0), mode, FALSE) :
        count \in 1..MaxTableDice, sides \in 1..MaxSides, mode \in RollModes}

\* Math.max(...results.map(r => r.percentage)) of a non-empty array
RECURSIVE MaxPercentageFrom(_, _, _)
MaxPercentageFrom(best, arr, i) ==
    IF i > Len(arr) THEN best
    ELSE MaxPercentageFrom(Max(best, arr[i].percentage), arr, i + 1)

\* results.filter(r => r.percentage === maxPercentage)
RECURSIVE FilterByPercentage(_, _, _, _)
FilterByPercentage(kept, arr, i, maxPercentage) ==
    IF i > Len(arr) THEN kept
    ELSE FilterByPercentage(
             IF arr[i].percentage = maxPercentage THEN Append(kept, arr[i])
             ELSE kept,
             arr, i + 1, maxPercentage)

\* Mutant of highestPercentageResults: any number of tied results is
\* emphasised.
highestPercentageResultsUnlimited(arr) ==
    IF Len(arr) = 0 THEN {}
    ELSE LET maxPercentage == MaxPercentageFrom(arr[1].percentage, arr, 2)
             maxResults == FilterByPercentage(<<>>, arr, 1, maxPercentage)
         IN  {maxResults[i].result : i \in 1..Len(maxResults)}

\* The computed signal highestPercentageResults: a Set of result values.
highestPercentageResults(arr) ==
    IF Len(arr) = 0 THEN {}
    ELSE LET maxPercentage == MaxPercentageFrom(arr[1].percentage, arr, 2)
             maxResults == FilterByPercentage(<<>>, arr, 1, maxPercentage)
         IN  IF Len(maxResults) >= 1 /\ Len(maxResults) <= MaxEmphasised
             THEN {maxResults[i].result : i \in 1..Len(maxResults)}
             ELSE {}

shouldBeBold(arr, result) == result \in highestPercentageResults(arr)

\* @Input() set results(value)
setResults(value) ==
    /\ tableResults' = value
    /\ UNCHANGED <<sortColumn, sortDirection>>
    /\ UNCHANGED <<engineVars, serviceVars>>

\* A click on the header of a column.
toggleSort(column) ==
    /\ IF sortColumn = column
       THEN /\ sortDirection' = (IF sortDirection = "asc" THEN "desc" ELSE "asc")
            /\ sortColumn' = sortColumn
       ELSE /\ sortColumn' = column
            /\ sortDirection' = "asc"
    /\ UNCHANGED tableResults
    /\ UNCHANGED <<engineVars, serviceVars>>

NextTable ==
    \/ \E value \in TableInputs : setResults(value)
    \/ \E column \in SortColumns : toggleSort(column)

SpecTable == Init /\ [][NextTable]_vars

----------------------------------------------------------------------------
\* Vocabulary of the properties.

\* The call has returned and its token was never cancelled.
ReturnedUncancelled == pc = "done" /\ ~cancelSignal

\* The preconditions of the builder: at least one die of at least two sides.
ValidParameters == diceCount >= 1 /\ diceType >= 2

\* The sum of the numerators of an array's probabilities.
RECURSIVE NumSumFrom(_, _)
NumSumFrom(arr, i) ==
    IF i > Len(arr) THEN 0 ELSE arr[i].probability.num + NumSumFrom(arr, i + 1)

NumSum(arr) == NumSumFrom(arr, 1)

\* The common denominator of a returned distribution: sides^diceCount, and
\* its square after the advantage / disadvantage transform.
BaseDenominator == Pow(diceType, diceCount)
ResultDenominator ==
    IF rollMode = "normal" THEN BaseDenominator
    ELSE BaseDenominator * BaseDenominator

\* The indices of the entries of arr whose result is k.
EntriesAt(arr, k) == {i \in 1..Len(arr) : arr[i].result = k}

\* Direct enumeration: the tuples of n faces in 1..s whose sum is k.
RECURSIVE TupleSum(_, _)
TupleSum(t, n) == IF n = 0 THEN 0 ELSE t[n] + TupleSum(t, n - 1)

Ways(n, s, k) == Cardinality({t \in [1..n -> 1..s] : TupleSum(t, n) = k})

\* The sum of a sequence of integers.
RECURSIVE SumFrom(_, _)
SumFrom(ints, i) == IF i > Len(ints) THEN 0 ELSE ints[i] + SumFrom(ints, i + 1)

SumSeq(ints) == SumFrom(ints, 1)

\* The numerator of the mass an array gives to outcome k (0 when k is not
\* in it).
NumAt(arr, k) ==
    SumSeq([i \in 1..Len(arr) |->
               IF arr[i].result = k THEN arr[i].probability.num ELSE 0])

\* The numerators of P(result >= k) and of P(result <= k).
TailNum(arr, k) ==
    SumSeq([i \in 1..Len(arr) |->
               IF arr[i].result >= k THEN arr[i].probability.num ELSE 0])

HeadNum(arr, k) ==
    SumSeq([i \in 1..Len(arr) |->
               IF arr[i].result <= k THEN arr[i].probability.num ELSE 0])

\* The denominator all probabilities of a non-empty array share, or 0.
CommonDen(arr) ==
    IF arr # <<>> /\ \A i \in 1..Len(arr) :
                       arr[i].probability.den = arr[1].probability.den
    THEN arr[1].probability.den
    ELSE 0

\* The outcomes around an array's results.
Outcomes(arr) == (MinResult(arr, 1) - 1)..(MaxResult(arr, 1) + 1)

----------------------------------------------------------------------------
\* C1: for diceCount >= 1, sides >= 2, every modifier and every roll mode,
\* the probabilities returned by an uncancelled calculateDistribution sum to
\* exactly 1: all numerators are over sides^diceCount (sides^(2*diceCount)
\* with advantage or disadvantage) and add up to that denominator.
C1_MassSumsToOne ==
    (ReturnedUncancelled /\ ValidParameters) =>
        /\ \A i \in 1..Len(results) :
               results[i].probability.den = ResultDenominator
        /\ NumSum(results) = ResultDenominator

C1_Witness ==
    /\ ReturnedUncancelled
    /\ diceCount = 6 /\ diceType = 3 /\ modifier = -1
    /\ rollMode = "disadvantage"
    /\ NumSum(results) = 531441

\* C2: the one-die-at-a-time convolution is exact: with modifier 0, every
\* outcome k has one entry carrying (number of tuples of diceCount faces in
\* 1..sides that sum to k) / sides^diceCount when there is such a tuple, and
\* no entry when there is none.
C2_ConvolutionIsExact ==
    (ReturnedUncancelled /\ ValidParameters /\ modifier = 0) =>
        \A k \in 0..(diceCount * diceType + 1) :
            LET ways == Ways(diceCount, diceType, k)
                at == EntriesAt(baseDistribution, k)
            IN  IF ways = 0 THEN at = {}
                ELSE /\ Cardinality(at) = 1
                     /\ \A i \in at :
                            baseDistribution[i].probability =
                                Rat(ways, BaseDenominator)

C2_Witness ==
    /\ ReturnedUncancelled
    /\ diceCount = 6 /\ diceType = 4 /\ modifier = 0
    /\ \E i \in 1..Len(baseDistribution) :
           /\ baseDistribution[i].result = 15
           /\ baseDistribution[i].probability = Rat(580, 4096)

\* C3: in normal mode, for diceCount >= 1 and sides >= 2, the returned array
\* lists the outcomes diceCount+modifier .. diceCount*sides+modifier, each
\* once, as consecutive integers in ascending order, each with a probability
\* above 0.
C3_ContiguousAscendingOutcomes ==
    (ReturnedUncancelled /\ ValidParameters /\ rollMode = "normal") =>
        /\ Len(results) = diceCount * (diceType - 1) + 1
        /\ \A i \in 1..Len(results) :
               /\ results[i].result = diceCount + modifier + i - 1
               /\ results[i].probability.num > 0
               /\ results[i].probability.den > 0

C3_Witness ==
    /\ ReturnedUncancelled
    /\ rollMode = "normal"
    /\ diceCount = 3 /\ diceType = 4 /\ modifier = -1
    /\ Len(results) = 10
    /\ results[1].result = 2
    /\ results[10].result = 11

\* C4: modifier shift invariance: the base distribution built with modifier
\* m has, for each entry (r, p) of the one built with modifier 0 from the
\* same dice, exactly one entry with result r + m and the same probability
\* p, and no other entries.
C4_ModifierShiftInvariance ==
    ReturnedUncancelled =>
        LET unshifted == UncancelledBase(diceCount, diceType, 0)
        IN  /\ Len(baseDistribution) = Len(unshifted)
            /\ \A i \in 1..Len(unshifted) :
                   LET at == EntriesAt(baseDistribution,
                                       unshifted[i].result + modifier)
                   IN  /\ Cardinality(at) = 1
                       /\ \A j \in at :
                              baseDistribution[j].probability =
                                  unshifted[i].probability

C4_Witness ==
    /\ ReturnedUncancelled
    /\ diceCount = 2 /\ diceType = 6 /\ modifier = -1
    /\ baseDistribution[1].result = 1
    /\ baseDistribution[1].probability = Rat(1, 36)
    /\ baseDistribution[11].result = 11

\* C5: single-die uniformity: one die of s >= 2 sides with modifier 0 (no
\* advantage or disadvantage) yields exactly the s outcomes 1..s, each with
\* probability exactly 1/s; for s = 6 each is shown as 16.7.
C5_SingleDieUniform ==
    (ReturnedUncancelled /\ diceCount = 1 /\ diceType >= 2 /\ modifier = 0) =>
        /\ Len(baseDistribution) = diceType
        /\ \A i \in 1..diceType :
               /\ baseDistribution[i].result = i
               /\ baseDistribution[i].probability = Rat(1, diceType)
               /\ diceType = 6 => baseDistribution[i].percentage = 167
        /\ rollMode = "normal" => results = baseDistribution

C5_Witness ==
    /\ ReturnedUncancelled
    /\ diceCount = 1 /\ diceType = 6 /\ modifier = 0 /\ rollMode = "normal"
    /\ Len(results) = 6
    /\ results[6] = [result |-> 6, probability |-> Rat(1, 6),
                     percentage |-> 167]

\* C6: two dice of s sides with modifier 0: outcome s + 1 is the only
\* outcome of maximum probability, which is s / s^2, and the extreme
\* outcomes 2 and 2s have probability 1 / s^2 each.
C6_TwoDiceMode ==
    (ReturnedUncancelled /\ diceCount = 2 /\ diceType >= 2 /\ modifier = 0) =>
        /\ CommonDen(baseDistribution) = diceType * diceType
        /\ NumAt(baseDistribution, diceType + 1) = diceType
        /\ \A i \in 1..Len(baseDistribution) :
               baseDistribution[i].result # diceType + 1 =>
                   baseDistribution[i].probability.num < diceType
        /\ NumAt(baseDistribution, 2) = 1
        /\ NumAt(baseDistribution, 2 * diceType) = 1
        /\ rollMode = "normal" => results = baseDistribution

C6_Witness ==
    /\ ReturnedUncancelled
    /\ diceCount = 2 /\ diceType = 6 /\ modifier = 0 /\ rollMode = "normal"
    /\ results[6] = [result |-> 7, probability |-> Rat(6, 36),
                     percentage |-> 167]
    /\ results[1] = [result |-> 2, probability |-> Rat(1, 36),
                     percentage |-> 28]
    /\ results[11].probability = Rat(1, 36)

\* The numerator of the mass that the ordered pairs (x, y) of entries of
\* base whose larger (smaller) result is k carry together.
PairNumMax(base, k) ==
    SumSeq([i \in 1..Len(base) |->
        SumSeq([j \in 1..Len(base) |->
            IF (base[i].result = k /\ base[j].result <= k)
               \/ (base[j].result = k /\ base[i].result <= k)
            THEN base[i].probability.num * base[j].probability.num
            ELSE 0])])

PairNumMin(base, k) ==
    SumSeq([i \in 1..Len(base) |->
        SumSeq([j \in 1..Len(base) |->
            IF (base[i].result = k /\ base[j].result >= k)
               \/ (base[j].result = k /\ base[i].result >= k)
            THEN base[i].probability.num * base[j].probability.num
            ELSE 0])])

\* C7: advantage / disadvantage is the law of the max / min of two
\* independent draws from the base distribution: every outcome k gets the
\* mass of the ordered pairs (x, y) with max(x, y) = k, which is
\* F(k)^2 - F(k-1)^2 for the base cumulative distribution F, respectively of
\* the pairs with min(x, y) = k; and the base distribution it is applied to
\* is the one of the whole roll, all dice summed and the modifier added.
C7_MaxMinOfTwoDraws ==
    (ReturnedUncancelled /\ rollMode # "normal" /\ baseDistribution # <<>>) =>
        LET base == baseDistribution
            d == CommonDen(base)
        IN  /\ d > 0
            /\ CommonDen(results) = d * d
            /\ base = UncancelledBase(diceCount, diceType, modifier)
            /\ \A i \in 1..Len(results) :
                   Cardinality(EntriesAt(results, results[i].result)) = 1
            /\ \A k \in Outcomes(base) :
                   IF rollMode = "advantage"
                   THEN /\ NumAt(results, k) = PairNumMax(base, k)
                        /\ NumAt(results, k) =
                               HeadNum(base, k) * HeadNum(base, k)
                               - HeadNum(base, k - 1) * HeadNum(base, k - 1)
                   ELSE NumAt(results, k) = PairNumMin(base, k)

C7_Witness ==
    /\ ReturnedUncancelled
    /\ rollMode = "advantage"
    /\ diceCount = 2 /\ diceType = 3 /\ modifier = 1
    /\ Len(results) = 5
    /\ results[1] = [result |-> 3, probability |-> Rat(1, 81),
                     percentage |-> 12]
    /\ results[5].probability = Rat(17, 81)

\* C8: advantage monotonicity: for every k the advantage distribution's
\* P(result >= k) is at least the base distribution's, and the disadvantage
\* distribution's P(result <= k) is at least the base distribution's.  With
\* the base masses over d and the transformed ones over d * d, a / (d * d)
\* >= c / d is a >= c * d.
C8_AdvantageMonotone ==
    (ReturnedUncancelled /\ rollMode # "normal" /\ baseDistribution # <<>>) =>
        LET d == CommonDen(baseDistribution)
        IN  /\ d > 0
            /\ CommonDen(results) = d * d
            /\ \A k \in Outcomes(baseDistribution) :
                   IF rollMode = "advantage"
                   THEN TailNum(results, k) >= TailNum(baseDistribution, k) * d
                   ELSE HeadNum(results, k) >= HeadNum(baseDistribution, k) * d

\* A case where the inequality is strict.
C8_Witness ==
    /\ ReturnedUncancelled
    /\ rollMode = "disadvantage"
    /\ diceCount = 3 /\ diceType = 2 /\ modifier = 0
    /\ HeadNum(results, 4) > HeadNum(baseDistribution, 4) * 8
    /\ HeadNum(results, 4) = 48

\* C9: with rollMode 'normal', calculateDistribution returns the base
\* distribution unchanged: same results, probabilities and percentages.
C9_NormalModeIsIdentity ==
    (pc = "done" /\ rollMode = "normal") => results = baseDistribution

C9_Witness ==
    /\ ReturnedUncancelled
    /\ rollMode = "normal"
    /\ diceCount = 6 /\ diceType = 2 /\ modifier = 1
    /\ Len(baseDistribution) = 7
    /\ results = baseDistribution

\* The indices of the entries of arr that a goal matches, the threshold
\* itself included in the cumulative operators.
Matching(arr, goal, cmp) ==
    {i \in 1..Len(arr) :
        \/ cmp = "exactly" /\ arr[i].result = goal
        \/ cmp = "orHigher" /\ arr[i].result >= goal
        \/ cmp = "orLower" /\ arr[i].result <= goal}

\* C10: calculateGoalProbability sums the probability of exactly the entries
\* that match the goal, the threshold included: 'exactly' result = goal,
\* 'orHigher' result >= goal, 'orLower' result <= goal.  For 2d6, goal 8 and
\* 'orHigher' that is 15/36, shown as 41.7.
C10_GoalSumsMatchingEntries ==
    pc = "goal" =>
        LET matching == Matching(results, goalNumber, comparison)
        IN  /\ totalProbability.num =
                   SumSeq([i \in 1..Len(results) |->
                              IF i \in matching
                              THEN results[i].probability.num
                              ELSE 0])
            /\ totalProbability.den =
                   (IF matching = {} THEN 1 ELSE CommonDen(results))
            /\ (/\ ~cancelSignal /\ rollMode = "normal"
                /\ diceCount = 2 /\ diceType = 6 /\ modifier = 0
                /\ goalNumber = 8 /\ comparison = "orHigher")
               => /\ totalProbability = Rat(15, 36)
                  /\ Percentage(totalProbability) = 417

C10_Witness ==
    /\ pc = "goal"
    /\ ~cancelSignal /\ rollMode = "normal"
    /\ diceCount = 2 /\ diceType = 6 /\ modifier = 0
    /\ goalNumber = 8 /\ comparison = "orHigher"
    /\ totalProbability = Rat(15, 36)

----------------------------------------------------------------------------
\* The goal of the query lies outside what the returned array can produce:
\* no entry at the goal for 'exactly', every entry below it for 'orHigher',
\* every entry above it for 'orLower'.
GoalOutsideRange ==
    \/ comparison = "exactly" /\ EntriesAt(results, goalNumber) = {}
    \/ /\ comparison = "orHigher"
       /\ (results = <<>> \/ goalNumber > MaxResult(results, 1))
    \/ /\ comparison = "orLower"
       /\ (results = <<>> \/ goalNumber < MinResult(results, 1))

\* C11: a goal outside the achievable range is answered, not refused:
\* calculateGoalProbability returns exactly 0 for 'exactly' with a goal that
\* is no result of the array (1d6, goal 10), for 'orHigher' with a goal above
\* the highest result and for 'orLower' with a goal below the lowest, and
\* the GoalResult made of it is shown as "0.0".
C11_GoalOutsideRangeIsZero ==
    (pc = "goal" /\ GoalOutsideRange) =>
        /\ totalProbability = Zero
        /\ results # <<>> =>
              /\ goalResult # Null
              /\ goalResult[1].probability = Zero
              /\ goalResult[1].percentage = 0
              /\ formatPercentage(goalResult[1].probability,
                                  goalResult[1].percentage) = "0.0"

C11_Witness ==
    /\ pc = "goal"
    /\ ~cancelSignal /\ rollMode = "normal"
    /\ diceCount = 1 /\ diceType = 6 /\ modifier = 0
    /\ goalNumber = 10 /\ comparison = "exactly"
    /\ Len(results) = 6
    /\ totalProbability = Zero
    /\ goalResult # Null
    /\ formatPercentage(goalResult[1].probability,
                        goalResult[1].percentage) = "0.0"

C13_InvalidParametersRejected ==
    (pc = "done" /\ (diceCount < 1 \/ diceType < 1)) => results = <<>>

\* C14: a call whose flag was cancelled when it was passed in, or was set
\* while the call was suspended at a yield, returns the empty array; a call
\* never returns a partial distribution: what it returns is empty or runs
\* from diceCount + modifier to diceCount * sides + modifier with the whole
\* mass.
C14_CancelledReturnsEmpty ==
    /\ (pc = "done" /\ cancelSignal) =>
          results = <<>> /\ baseDistribution = <<>>
    /\ (pc = "done" /\ ValidParameters /\ results # <<>>) =>
          /\ MinResult(results, 1) = diceCount + modifier
          /\ MaxResult(results, 1) = diceCount * diceType + modifier
          /\ NumSum(results) = ResultDenominator

\* Cancelled during the yield after the fifth die of six: five dice are in
\* the running Map and nothing of it is returned.
C14_Witness ==
    /\ pc = "done"
    /\ cancelSignal
    /\ diceCount = 6 /\ diceType = 2
    /\ die = 6
    /\ Len(distribution) = 6
    /\ results = <<>>

----------------------------------------------------------------------------
\* Properties of CalculatorService, under SpecService.

\* The step is executeCalculation, run by the emission of the debounce
\* timer.
ExecutionStarts == started' = started + 1

\* The step ends the suspended calculation c: it has returned from the
\* engine and executeCalculation has finished.
Finishes(c) == \A d \in calls' : d.token # c.token

\* C15: when a calculation in flight is cancelled (a setter was called while
\* the engine was suspended at a yield), the empty result of the cancelled
\* call is never written to probabilityResults: the step in which that call
\* finishes leaves probabilityResults as it was.
C15_CancelledResultNotWritten ==
    [][\A c \in calls :
          (cancelledOf[c.token] /\ Finishes(c)) =>
              probabilityResults' = probabilityResults]_vars

\* The suspended calculations whose token is not cancelled.
Uncancelled == {c \in calls : ~cancelledOf[c.token]}

\* C16: a new calculation supersedes the one before it: after a call of
\* setDiceCount / setDiceType / setModifier every calculation in flight
\* holds a cancelled token and the current token is a fresh uncancelled one
\* that none of them holds; each executeCalculation passes the token that is
\* current when it starts, so calculations in flight hold different tokens,
\* one that is not cancelled holds the current token, and at most one
\* calculation in flight holds an uncancelled token.
C16_OneUncancelledInFlight ==
    /\ Cardinality(Uncancelled) <= 1
    /\ \A c \in Uncancelled : c.token = currentCancellationToken
    /\ \A c, d \in calls : c.token = d.token => c = d
    /\ ~cancelledOf[currentCancellationToken]
    /\ debounceTimer # Null =>
          /\ Uncancelled = {}
          /\ currentCancellationToken \notin HeldTokens

\* A setter has superseded the suspended calculation: its token is
\* cancelled and the current token is another one, not cancelled.
C16_Witness ==
    /\ debounceTimer # Null
    /\ \E c \in calls :
          /\ cancelledOf[c.token]
          /\ c.token # currentCancellationToken
    /\ ~cancelledOf[currentCancellationToken]

\* What the debounce timer guarantees in every state.
DebounceState ==
    /\ started <= 1
    /\ debounceTimer # Null =>
          /\ started = 0
          /\ sinceSetter # Null
          /\ sinceSetter[1] + debounceTimer[1] = DebounceTime
    /\ (debounceTimer = Null /\ sinceSetter # Null) =>
          /\ started = 1
          /\ sinceSetter = Some(DebounceTime)

\* The calculation that starts in this step is made with the values the
\* signals hold, which are those of the last setter calls: it is suspended
\* with them and the current token, or it has gone to its end and its
\* distribution is in probabilityResults.
UsesCurrentInputs ==
    IF ~ValidInputs(diceCountSignal, diceTypeSignal) THEN calls' = calls
    ELSE LET sides == parseInt(substring(diceTypeSignal[1], 1))
         IN  \/ /\ Cardinality(calls') = Cardinality(calls) + 1
                /\ \E c \in calls' \ calls :
                      /\ c.count = diceCountSignal
                      /\ c.sides = sides
                      /\ c.mod = modifierSignal
                      /\ c.token = currentCancellationToken
             \/ /\ calls' = calls
                /\ probabilityResults' =
                       UncancelledBase(diceCountSignal, sides, modifierSignal)

\* C17: a burst of setDiceCount / setDiceType / setModifier calls, each less
\* than 300 ms after the one before, leads to exactly one
\* executeCalculation, which starts 300 ms after the last call of the burst
\* and uses the values the last calls set: while the timer runs no
\* calculation has started since the last call, the timer is due exactly
\* 300 ms after it, an executeCalculation starts only then, only once, and
\* with the current values, and no other step starts a calculation.
C17_Debounce ==
    [][/\ DebounceState'
       /\ ExecutionStarts =>
             /\ sinceSetter = Some(DebounceTime)
             /\ started = 0
             /\ UsesCurrentInputs
       /\ ~ExecutionStarts => calls' \subseteq calls \/ Cardinality(calls') = Cardinality(calls)]_vars

\* A burst of at least two setter calls has been followed by its one
\* executeCalculation, whose calculation of 6d4 + 1 is suspended.
C17_Witness ==
    /\ burst >= 2
    /\ started = 1
    /\ debounceTimer = Null
    /\ sinceSetter = Some(DebounceTime)
    /\ diceCountSignal = 6
    /\ diceTypeSignal = Some(<<"d", "4">>)
    /\ modifierSignal = 1
    /\ \E c \in Uncancelled : c.count = 6 /\ c.sides = 4 /\ c.mod = 1

\* C18: the previous table persists while the inputs are invalid: when the
\* debounced calculation fires with dice type null or dice count outside
\* 1..100, probabilityResults keeps the value it had.
C18_TablePersistsWhenInvalid ==
    [][(ExecutionStarts /\ ~ValidInputs(diceCountSignal, diceTypeSignal)) =>
          probabilityResults' = probabilityResults]_vars

\* C19: an uncancelled call's array is a function of (diceCount, sides,
\* modifier, rollMode) alone: whatever calls came before and wherever the
\* call was suspended, it returns what the loop run without interruption
\* gives for these parameters, so two calls with the same parameters return
\* the same array.
C19_Deterministic ==
    ReturnedUncancelled =>
        results = DistributionFromBase(
                      UncancelledBase(diceCount, diceType, modifier),
                      rollMode, FALSE)

\* A call of six dice, which was suspended once.
C19_Witness ==
    /\ ReturnedUncancelled
    /\ diceCount = 6 /\ diceType = 3 /\ modifier = 1
    /\ rollMode = "disadvantage"
    /\ die = 7
    /\ Len(results) = 13

\* x * n as a number of two limbs <<hi, lo>>, hi * 4096 + lo with lo in
\* 0..4095, for products beyond 32 bits.
Times(x, n) ==
    <<x * (n \div 4096) + (x * (n % 4096)) \div 4096, (x * (n % 4096)) % 4096>>

LimbsLess(a, b) == a[1] < b[1] \/ (a[1] = b[1] /\ a[2] < b[2])

\* percentage (in tenths) is probability * 1000 rounded to the nearest
\* integer, halves up: percentage - 1/2 <= 1000 * probability
\* < percentage + 1/2.
RoundsHalfUp(probability, percentage) ==
    /\ ~LimbsLess(Times(2000, probability.num),
                  Times(2 * percentage - 1, probability.den))
    /\ LimbsLess(Times(2000, probability.num),
                 Times(2 * percentage + 1, probability.den))

\* C20: every entry a call returns, in every roll mode, and every GoalResult
\* has percentage = round(probability * 1000) / 10 with halves rounded up, a
\* multiple of 0.1 from 0 to 100 (1/16 gives 6.3); the probability itself is
\* stored unrounded: the entries keep the denominator sides^diceCount (its
\* square after the transform) and their numerators sum to it, and a
\* GoalResult holds the sum calculateGoalProbability returned.
C20_PercentageRounding ==
    /\ pc = "done" =>
          \A i \in 1..Len(results) :
              /\ results[i].percentage \in 0..1000
              /\ RoundsHalfUp(results[i].probability, results[i].percentage)
    /\ (ReturnedUncancelled /\ ValidParameters) =>
          /\ \A i \in 1..Len(results) :
                 results[i].probability.den = ResultDenominator
          /\ NumSum(results) = ResultDenominator
    /\ (pc = "goal" /\ goalResult # Null) =>
          /\ goalResult[1].percentage \in 0..1000
          /\ RoundsHalfUp(goalResult[1].probability, goalResult[1].percentage)
          /\ goalResult[1].probability = totalProbability
    /\ (/\ ReturnedUncancelled /\ rollMode = "normal"
        /\ diceCount = 2 /\ diceType = 4 /\ modifier = 0)
       => results[1] = [result |-> 2,
                        probability |-> Rat(1, 16),
                        percentage |-> 63]

C20_Witness ==
    /\ ReturnedUncancelled /\ rollMode = "normal"
    /\ diceCount = 2 /\ diceType = 4 /\ modifier = 0
    /\ results[1].probability = Rat(1, 16)
    /\ results[1].percentage = 63

----------------------------------------------------------------------------
\* The components that show the results.

\* 0 < probability < 0.001, by cross-multiplication.
BelowDisplayThreshold(probability) ==
    /\ probability.num > 0
    /\ LimbsLess(Times(1000, probability.num), Times(1, probability.den))

\* What formatPercentage must show for a probability and its percentage.
ShownAsSpecified(probability, percentage) ==
    LET shown == formatPercentage(probability, percentage)
    IN  /\ shown = "<0.1" <=> BelowDisplayThreshold(probability)
        /\ ~BelowDisplayThreshold(probability) =>
              shown = ToString(percentage \div 10) \o "."
                          \o ToString(percentage % 10)
        /\ probability.num = 0 => shown = "0.0"
        /\ probability.num > 0 => shown # "0.0"

\* C21: formatPercentage(probability, percentage) is "<0.1" exactly when
\* 0 < probability < 0.001 and the percentage with one decimal otherwise;
\* probability 0 is shown as "0.0", and an entry or a goal probability that
\* is not 0 is never shown as "0.0": for every row of a returned array and
\* for every GoalResult.
C21_SubThresholdDisplay ==
    /\ pc \in {"done", "goal"} =>
          \A i \in 1..Len(results) :
              ShownAsSpecified(results[i].probability, results[i].percentage)
    /\ (pc = "goal" /\ goalResult # Null) =>
          ShownAsSpecified(goalResult[1].probability, goalResult[1].percentage)

\* 6d4 and the goal "6 exactly": the row of 6 and the goal result, both
\* 1/4096, are shown as "<0.1", the row of 15 as "14.2".
C21_Witness ==
    /\ pc = "goal" /\ diceCount = 6 /\ diceType = 4 /\ modifier = 0
    /\ rollMode = "normal" /\ goalNumber = 6 /\ comparison = "exactly"
    /\ results[1].probability = Rat(1, 4096)
    /\ formatPercentage(results[1].probability, results[1].percentage) = "<0.1"
    /\ formatPercentage(results[10].probability, results[10].percentage) = "14.2"
    /\ goalResult # Null
    /\ formatPercentage(goalResult[1].probability, goalResult[1].percentage)
           = "<0.1"

\* The rows of an array that carry the percentage of row i.
RowsTiedWith(arr, i) ==
    {j \in 1..Len(arr) : arr[j].percentage = arr[i].percentage}

\* C22: shouldBeBold(r) holds exactly when the percentage of r is the
\* highest of the whole array given to the table and one to three rows carry
\* it; with four or more rows tied for the highest percentage (a single die
\* of four or more sides) and with an empty array nothing is emphasised, and
\* a number that is no row of the table is never emphasised.
C22_ModalHighlighting ==
    /\ \A i \in 1..Len(tableResults) :
          shouldBeBold(tableResults, tableResults[i].result) <=>
              /\ \A j \in 1..Len(tableResults) :
                     tableResults[j].percentage <= tableResults[i].percentage
              /\ Cardinality(RowsTiedWith(tableResults, i)) \in 1..3
    /\ tableResults = <<>> => highestPercentageResults(tableResults) = {}
    /\ highestPercentageResults(tableResults) \subseteq
           {tableResults[i].result : i \in 1..Len(tableResults)}
    /\ (/\ Len(tableResults) >= 4
        /\ \A i \in 1..Len(tableResults) :
               tableResults[i].probability = Rat(1, Len(tableResults)))
       => \A i \in 1..Len(tableResults) :
              ~shouldBeBold(tableResults, tableResults[i].result)

\* The table of 3d6: 10 and 11, both 12.5, are emphasised and nothing else.
C22_Witness ==
    /\ Len(tableResults) = 16
    /\ tableResults[1].result = 3
    /\ highestPercentageResults(tableResults) = {10, 11}
    /\ shouldBeBold(tableResults, 10)
    /\ ~shouldBeBold(tableResults, 9)

\* C24: a click on the header of the other column changes the column and
\* keeps the direction, and a click on the header of the sorted column
\* keeps the column and turns the direction round.
C24_SortDirectionPreserved ==
    [][/\ sortColumn' # sortColumn => sortDirection' = sortDirection
       /\ (sortColumn' = sortColumn /\ tableResults' = tableResults) =>
             sortDirection' # sortDirection]_vars

ConvolvesADie == pc = "loop" /\ die' = die + 1

\* C25: the flag is read between convolution steps only.  A die (2 to
\* diceCount) is convolved only from the loop test with the flag clear, and
\* the result is built only from the test after the loop with the flag
\* clear; the call suspends only on completing the step of a die whose
\* index is a multiple of 5, and every such step suspends; the flag changes
\* during a call only while it is suspended; a suspended call resumes at
\* the loop test with nothing else changed; from the loop test with the
\* flag set the call returns [] without another step; and an array is
\* built only when the loop has run through all dice with the flag clear.
C25_CancellationBetweenSteps ==
    [][/\ ConvolvesADie =>
              /\ ~cancelSignal
              /\ die \in 2..diceCount
              /\ pc' = (IF die % 5 = 0 THEN "yield" ELSE "loop")
       /\ (pc # "yield" /\ pc' = "yield") => (ConvolvesADie /\ die % 5 = 0)
       /\ (pc \in {"loop", "yield"} /\ cancelSignal' # cancelSignal) =>
              (pc = "yield" /\ pc' = "yield" /\ cancelSignal')
       /\ pc = "yield" =>
              /\ pc' \in {"yield", "loop"}
              /\ die' = die /\ distribution' = distribution
              /\ results' = results
       /\ (pc = "loop" /\ cancelSignal) =>
              /\ pc' = "done" /\ results' = <<>> /\ baseDistribution' = <<>>
              /\ distribution' = distribution /\ die' = die
       /\ (pc = "loop" /\ pc' = "done" /\ results' # <<>>) =>
              (~cancelSignal /\ die = Max(diceCount + 1, 2))]_vars

\* Five dice: the call was suspended after the step of die 5, the last one,
\* the flag was set meanwhile, and the test after the loop returned [].
C25_Witness ==
    /\ pc = "done" /\ cancelSignal
    /\ diceCount = 5 /\ diceType = 4 /\ die = 6
    /\ Len(distribution) = 16
    /\ results = <<>>

\* C26: isCalculating is true exactly while a calculation that
\* executeCalculation started is suspended in the engine, and false when
\* none is in flight: before the first calculation, after a calculation has
\* returned, cancelled or not, and after an executeCalculation that found
\* the inputs invalid.
C26_IsCalculatingWhileInFlight ==
    /\ isCalculating <=> calls # {}
    /\ isCalculating \in BOOLEAN

\* A calculation of ten dice is suspended and nothing has cancelled it.
C26_Witness ==
    /\ isCalculating
    /\ \E c \in calls :
          /\ c.count = 10 /\ c.die > 6
          /\ c.token = currentCancellationToken
          /\ ~cancelledOf[c.token]
    /\ debounceTimer = Null

\* C27: after every step of the service goalResult is the view of the
\* current state: null exactly when probabilityResults is empty or
\* goalNumber is null, and otherwise made of the current goalNumber, the
\* current goalComparison and the probability calculateGoalProbability
\* gives for them on the current probabilityResults.
C27_GoalResultIsCurrent ==
    /\ goalResultSignal = Null <=>
           (Len(probabilityResults) = 0 \/ goalNumberSignal = Null)
    /\ goalResultSignal # Null =>
           /\ goalResultSignal[1].goalNumber = goalNumberSignal[1]
           /\ goalResultSignal[1].comparison = goalComparison
           /\ goalResultSignal[1].probability =
                  GoalProbability(probabilityResults, goalNumberSignal[1],
                                  goalComparison)
           /\ goalResultSignal[1].probability.num =
                  SumSeq([i \in 1..Len(probabilityResults) |->
                            IF i \in Matching(probabilityResults,
                                               goalNumberSignal[1],
                                               goalComparison)
                            THEN probabilityResults[i].probability.num
                            ELSE 0])

\* The table of 6d4 and the goal 7 or lower, chosen after the table was
\* there: 7/4096.
C27_Witness ==
    /\ Len(probabilityResults) = 19
    /\ goalNumberSignal = Some(7) /\ goalComparison = "orLower"
    /\ goalResultSignal # Null
    /\ goalResultSignal[1].probability = Rat(7, 4096)
    /\ goalResultSignal[1].displayText = "7 or lower"
    /\ debounceTimer = Null /\ calls = {}

GoalNum(arr, goal, cmp) == GoalProbability(arr, goal, cmp).num

\* A goal sum is 0 or has the denominator of the entries.
GoalDenIsCommon(arr, goal, cmp) ==
    LET p == GoalProbability(arr, goal, cmp)
    IN  p = Zero \/ p.den = CommonDen(arr)

\* C30: for every array calculateDistribution returns and every goal g from
\* below its lowest to above its highest result,
\* P(orHigher, g) + P(orLower, g) - P(exactly, g) is the total mass of the
\* array, which is 1 for the array of an uncancelled call with valid
\* parameters (and 0 for []).
C30_ComplementIdentity ==
    pc = "done" =>
        /\ \A g \in GoalNumbers(results) :
              /\ \A cmp \in GoalComparisons :
                     GoalDenIsCommon(results, g, cmp)
              /\ GoalNum(results, g, "orHigher") + GoalNum(results, g, "orLower")
                     - GoalNum(results, g, "exactly") = NumSum(results)
        /\ (ReturnedUncancelled /\ ValidParameters) =>
              NumSum(results) = ResultDenominator
        /\ results = <<>> => NumSum(results) = 0

\* 2d6 has returned: for the goal 7 the sums are 21/36, 21/36 and 6/36.
C30_Witness ==
    /\ ReturnedUncancelled /\ rollMode = "normal"
    /\ diceCount = 2 /\ diceType = 6 /\ modifier = 0
    /\ GoalProbability(results, 7, "orHigher") = Rat(21, 36)
    /\ GoalProbability(results, 7, "orLower") = Rat(21, 36)
    /\ GoalProbability(results, 7, "exactly") = Rat(6, 36)
    /\ NumSum(results) = 36

\* A call of setDiceCount, setDiceType or setModifier.
InputSetterCalled ==
    \/ \E count \in DiceCountInputs : setDiceCount(count)
    \/ \E type \in DiceTypeInputs : setDiceType(type)
    \/ \E mod \in ModifierInputs : setModifier(mod)

\* The distribution of every valid combination of inputs the setters are
\* called with, as the loop run without interruption builds it.
DistributionOf ==
    [count \in {c \in DiceCountInputs : ValidInputs(c, Some(<<>>))},
     type \in DiceTypeInputs \ {Null},
     mod \in ModifierInputs |->
        UncancelledBase(count, parseInt(substring(type[1], 1)), mod)]

\* The table is the distribution of the current inputs.
TableIsCurrent ==
    probabilityResults =
        DistributionOf[diceCountSignal, diceTypeSignal, modifierSignal]

\* C29: if from some moment on no input setter is called, then from some
\* moment on, whenever the inputs are valid, probabilityResults is the
\* distribution of the current diceCount, diceType and modifier, for good:
\* no calculation started for earlier values changes it afterwards.
C29_EventuallyConsistent ==
    (<>[][~InputSetterCalled]_vars) =>
        <>[](ValidInputs(diceCountSignal, diceTypeSignal) => TableIsCurrent)

\* The setters were called twice in a burst, the one calculation that was
\* started for the last values (ten dice) has run through its suspensions,
\* and the table shows their distribution.
C29_Witness ==
    /\ ValidInputs(diceCountSignal, diceTypeSignal)
    /\ diceCountSignal = 10
    /\ burst = 2 /\ started = 1
    /\ debounceTimer = Null /\ calls = {} /\ ~isCalculating
    /\ Len(probabilityResults) = 31
    /\ TableIsCurrent

====
